---- MODULE Spec2Model ----
(***************************************************************************)
(* Resilient email service: sliding-window RateLimiter, per-provider       *)
(* CircuitBreaker, retrying Queue and the EmailService dispatch loop.      *)
(*                                                                         *)
(* The specifications share the variables:                                 *)
(*   SpecRL  - a RateLimiter driven directly by acquire() calls            *)
(*   SpecCB  - a CircuitBreaker driven directly by execute() calls         *)
(*   Spec    - the EmailService (sendEmail, Queue.process, processEmail),  *)
(*             and its variants with further operations of the service     *)
(***************************************************************************)
EXTENDS Integers, Sequences, FiniteSets

(* ---------------- bounds of the model ---------------- *)
MaxTime == 3
MaxCalls == 4
MaxInflight == 2
MaxAdmitted == 5
MaxRejects == 2
MaxSubmissions == 3
NumMsgIds == 2
MaxRequestsChoice == 2
MaxWindowChoice == 2
MaxThresholdChoice == 2
MaxTimeoutChoice == 2
MaxAttemptsChoice == 2
NegAttemptsChoice == 2
MaxDelayChoice == 3
MaxFactorChoice == 4
MaxBackoffAttempt == 4
FactorDen == 2
RandomDen == 4

MsgIds == 1..NumMsgIds

(* ---------------- configuration (EmailServiceConfig) ---------------- *)
(* providers is the number of configured providers, named 1, 2, ... in    *)
(* their configured order; times are in units of the clock; backoffFactor *)
(* is a fraction, given in units of 1/FactorDen                           *)
BaseConfig ==
  [providers |-> 2, maxAttempts |-> 2, failureThreshold |-> 2, resetTimeout |-> 2,
   maxRequests |-> 2, timeWindow |-> 2,
   initialDelay |-> 1, maxDelay |-> 3, backoffFactor |-> 2 * FactorDen]

(* the configurations of a RateLimiter, of a CircuitBreaker, of a service *)
RateLimiterConfigs ==
  {[BaseConfig EXCEPT !.maxRequests = n, !.timeWindow = w] :
     n \in 1..MaxRequestsChoice, w \in 1..MaxWindowChoice}

CircuitBreakerConfigs ==
  {[BaseConfig EXCEPT !.providers = 1, !.failureThreshold = f, !.resetTimeout = r] :
     f \in 1..MaxThresholdChoice, r \in 1..MaxTimeoutChoice}

ServiceConfigs ==
  {[BaseConfig EXCEPT !.maxAttempts = m] : m \in 1..MaxAttemptsChoice}

(* retry configurations: delays from 0 up, backoffFactor from 1/FactorDen  *)
(* up in steps of 1/FactorDen                                              *)
BackoffConfigs ==
  {[BaseConfig EXCEPT !.initialDelay = i, !.maxDelay = m, !.backoffFactor = f] :
     i \in 0..MaxDelayChoice, m \in 0..MaxDelayChoice, f \in 1..MaxFactorChoice}

(* the configurations handed to the constructor: from no provider up, and *)
(* retryConfig.maxAttempts from negative values up                        *)
ConstructorConfigs ==
  {[BaseConfig EXCEPT !.providers = k, !.maxAttempts = m] :
     k \in 0..BaseConfig.providers, m \in (0 - NegAttemptsChoice)..MaxAttemptsChoice}

(* lastFailureTime: number | null *)
NULL == -1

VARIABLES
  config,             \* the configuration the objects were constructed with
  now,                \* value returned by getCurrentTime()
  requestTimestamps,  \* RateLimiter.requestTimestamps
  admitted,           \* history: every timestamp ever admitted by acquire()
  rejEpisode,         \* history: the last run of rejected acquire() calls
  circuitBreakers,    \* provider -> [state, failureCount, lastFailureTime]
  inflight,           \* SpecCB: provider -> number of direct execute() operations in flight
  cbHist,             \* SpecCB: provider -> outcomes of completed operations since construction/reset
  queue,              \* Queue.queue, a sequence of item references
  processing,         \* Queue.processing
  items,              \* the QueueItem objects ever created, with the state of their promise
  chains,             \* activations of Queue.process with the locals of processEmail
  sentMessageIds,     \* EmailService.sentMessageIds
  metrics,            \* success / failure counters
  sendCalls,          \* history: provider -> number of times its send was called
  microtasks,         \* the promise continuations of the service that are queued, oldest first
  ev                  \* the last operation performed and what it did

vars == <<config, now, requestTimestamps, admitted, rejEpisode, circuitBreakers, inflight,
          cbHist, queue, processing, items, chains, sentMessageIds, metrics, sendCalls,
          microtasks, ev>>

Providers == 1..config.providers

rlVars == <<requestTimestamps, admitted, rejEpisode>>
cbVars == <<circuitBreakers, inflight, cbHist>>
svcVars == <<queue, processing, items, chains, sentMessageIds, metrics, sendCalls,
             microtasks>>

(* the last operation: its name, the provider and message id it concerns,  *)
(* its result, what Queue.process did with the item, the providers whose   *)
(* send it called and those it skipped, and the context of a thrown error  *)
Event(op, p, id, res, invoked, skipped) ==
  [op |-> op, p |-> p, id |-> id, res |-> res, settle |-> "", invoked |-> invoked,
   skipped |-> skipped, lastProviderName |-> 0, lastError |-> "undefined",
   lastInvoked |-> 0, attempts |-> 0, suspensions |-> 0]

(* ======================= RateLimiter ======================= *)

cleanupOldRequests(ts, n) ==
  SelectSeq(ts, LAMBDA t : t > n - config.timeWindow)

(* acquire() with the limit test off by one *)
acquireOffByOne(ts, n) ==
  LET c == cleanupOldRequests(ts, n) IN
  IF Len(c) > config.maxRequests /\ Len(c) > 0 /\ c[1] + config.timeWindow - n > 0
    THEN [ok |-> FALSE, ts |-> c]
    ELSE [ok |-> TRUE, ts |-> Append(c, n)]

(* acquire() recording the timestamp before the limit test *)
acquireRecordsFirst(ts, n) ==
  LET c == cleanupOldRequests(ts, n) IN
  IF Len(c) >= config.maxRequests /\ Len(c) > 0 /\ c[1] + config.timeWindow - n > 0
    THEN [ok |-> FALSE, ts |-> Append(c, n)]
    ELSE [ok |-> TRUE, ts |-> Append(c, n)]

(* acquire(): the result and the new requestTimestamps.  An empty window   *)
(* gives oldestRequest = undefined and waitTime = NaN, and NaN > 0 is false *)
acquire(ts, n) ==
  LET c == cleanupOldRequests(ts, n) IN
  IF Len(c) >= config.maxRequests /\ Len(c) > 0 /\ c[1] + config.timeWindow - n > 0
    THEN [ok |-> FALSE, ts |-> c]
    ELSE [ok |-> TRUE, ts |-> Append(c, n)]

(* the history variables kept beside an acquire() at time n: the admitted  *)
(* timestamps, and the last run of rejections: the oldest window entry at  *)
(* its first rejection, the number of rejections, the admission ending it  *)
NoEpisode == [oldest |-> NULL, count |-> 0, admittedAt |-> NULL]

EpisodeOpen == rejEpisode.oldest # NULL /\ rejEpisode.admittedAt = NULL

RLHistory(r, n) ==
  /\ admitted' = IF r.ok THEN Append(admitted, n) ELSE admitted
  /\ rejEpisode' =
       IF r.ok
         THEN IF EpisodeOpen THEN [rejEpisode EXCEPT !.admittedAt = n] ELSE rejEpisode
         ELSE IF EpisodeOpen THEN [rejEpisode EXCEPT !.count = @ + 1]
              ELSE [oldest |-> r.ts[1], count |-> 1, admittedAt |-> NULL]

(* ======================= CircuitBreaker ======================= *)

NewBreaker == [state |-> "CLOSED", failureCount |-> 0, lastFailureTime |-> NULL]

(* `this.lastFailureTime && ...`: null and 0 are both falsy *)
Truthy(t) == t # NULL /\ t # 0

(* execute() that forgets to test the elapsed time *)
executeEnterNoTimeout(b, n) ==
  IF b.state = "OPEN"
    THEN IF Truthy(b.lastFailureTime)
           THEN [admit |-> TRUE, b |-> [b EXCEPT !.state = "HALF_OPEN"]]
           ELSE [admit |-> FALSE, b |-> b]
    ELSE [admit |-> TRUE, b |-> b]

(* execute(), up to the call of fn: is fn called, and the breaker then *)
executeEnter(b, n) ==
  IF b.state = "OPEN"
    THEN IF Truthy(b.lastFailureTime) /\ n - b.lastFailureTime >= config.resetTimeout
           THEN [admit |-> TRUE, b |-> [b EXCEPT !.state = "HALF_OPEN"]]
           ELSE [admit |-> FALSE, b |-> b]
    ELSE [admit |-> TRUE, b |-> b]

(* execute(), fn resolved, closing the breaker without zeroing it *)
executeSuccessKeepsCount(b) ==
  IF b.state = "HALF_OPEN" THEN [b EXCEPT !.state = "CLOSED"] ELSE b

(* execute(), fn resolved, a success wiping the failures counted so far *)
executeSuccessZeroes(b) ==
  IF b.state = "HALF_OPEN" THEN NewBreaker ELSE [b EXCEPT !.failureCount = 0]

(* execute(), fn resolved *)
executeSuccess(b) ==
  IF b.state = "HALF_OPEN" THEN NewBreaker ELSE b

(* execute(), fn rejected, opening one failure late *)
executeFailureLate(b, n) ==
  [state |-> IF b.failureCount + 1 > config.failureThreshold THEN "OPEN" ELSE b.state,
   failureCount |-> b.failureCount + 1,
   lastFailureTime |-> n]

(* execute(), fn rejected *)
executeFailure(b, n) ==
  [state |-> IF b.failureCount + 1 >= config.failureThreshold THEN "OPEN" ELSE b.state,
   failureCount |-> b.failureCount + 1,
   lastFailureTime |-> n]

(* reset() zeroing the counters but leaving the state *)
resetKeepsState(b) == [b EXCEPT !.failureCount = 0, !.lastFailureTime = NULL]

reset(b) == NewBreaker

(* ======================= Queue ======================= *)

(* Queue.maxAttempts: new Queue(this.retryConfig.maxAttempts, ...) *)
QueueMaxAttempts == config.maxAttempts

(* a QueueItem with the promise that enqueue returned: attempts, and how   *)
(* item.resolve / item.reject settled it; cleared is history: a clear()    *)
(* found the item in the queue, "waiting" or "inflight" (its dispatch in   *)
(* progress)                                                               *)
NewItem(id) ==
  [id |-> id, attempts |-> 0, state |-> "pending", error |-> "",
   provider |-> 0, statusAttempts |-> 0, cleared |-> ""]

(* the items referred to by the queue; 0 is a pushed undefined *)
Queued(q) == {q[i] : i \in 1..Len(q)} \ {0}

(* Array.prototype.shift *)
shift(q) == IF Len(q) = 0 THEN q ELSE Tail(q)

(* this.queue.push(this.queue.shift()!): on an empty array shift() gives   *)
(* undefined, which is pushed; 0 stands for undefined                      *)
moveHeadToTail(q) == IF Len(q) = 0 THEN <<0>> ELSE Append(Tail(q), Head(q))

(* An activation of Queue.process with the locals of the processEmail call *)
(* it awaits.  pc is where the activation is suspended:                    *)
(*   "acquired"/"rateLimited"  at `await this.rateLimiter.acquire()`, the  *)
(*                 call having returned or thrown                          *)
(*   "sending"     at `await fn()` in execute(): provider.send in flight   *)
(*   "executeReturned"/"executeThrew"  at `await circuitBreaker.execute()`, *)
(*                 execute() having returned the status or rethrown        *)
(*   "returned"/"thrown"  at `await item.process(item.message)`,           *)
(*                 processEmail having returned or thrown `error`          *)
(*   "backoff"     the backoff timer is pending                            *)
(*   "scheduled"   setImmediate(() => this.process()) is pending           *)
(* Every await but those on the provider's promise and on the timer is     *)
(* resumed by a promise microtask: the activation then has an entry in     *)
(* microtasks, and code of the caller that is queued as a microtask too    *)
(* can run before it.                                                      *)
(* lastInvoked is history: the last provider whose send this dispatch      *)
(* called; suspensions is history: the backoff delays this dispatch has    *)
(* awaited or is awaiting.                                                 *)
IdleChain ==
  [pc |-> "idle", item |-> 0, attempts |-> 0, pi |-> 0, lastError |-> "undefined",
   lastProviderName |-> 0, lastInvoked |-> 0, suspensions |-> 0, error |-> ""]

ScheduledChain == [IdleChain EXCEPT !.pc = "scheduled"]

(* a queued promise job.  ChainTask: the continuation of the activation c  *)
(* of Queue.process.  EnqueueTask: item h's promise was resolved (ok) or   *)
(* rejected, and the promise that the async enqueue() returned, which      *)
(* adopted it, is to be settled likewise.  SendEmailTask: that promise has *)
(* settled and the sendEmail call of item h is to be resumed.              *)
ChainTask(c) == [job |-> "chain", c |-> c, h |-> 0, ok |-> FALSE]
EnqueueTask(h, ok) == [job |-> "enqueue", c |-> 0, h |-> h, ok |-> ok]
SendEmailTask(h, ok) == [job |-> "sendEmail", c |-> 0, h |-> h, ok |-> ok]

(* Queue.process, the try branch, lowering the processing flag when the   *)
(* item is done                                                            *)
processResolvedClearsFlag(S, c, p) ==
  LET ch == S.chains[c]
      h == ch.item
      it == S.items[h]
      fresh == it.state = "pending" IN
  [S EXCEPT !.items[h] = IF fresh
                           THEN [it EXCEPT !.state = "resolved", !.provider = p,
                                           !.statusAttempts = ch.attempts]
                           ELSE it,
            !.microtasks = IF fresh THEN Append(@, EnqueueTask(h, TRUE)) ELSE @,
            !.queue = shift(@),
            !.processing = FALSE,
            !.chains[c] = ScheduledChain,
            !.ev.settle = "resolved",
            !.ev.attempts = ch.attempts,
            !.ev.suspensions = ch.suspensions]

(* Queue.process resumed with the status: item.resolve(status), which      *)
(* queues the settling of enqueue()'s promise, this.queue.shift(),         *)
(* setImmediate.                                                           *)
(* The status is that of provider p with processEmail's attempts.          *)
processResolved(S, c, p) ==
  LET ch == S.chains[c]
      h == ch.item
      it == S.items[h]
      fresh == it.state = "pending" IN
  [S EXCEPT !.items[h] = IF fresh
                           THEN [it EXCEPT !.state = "resolved", !.provider = p,
                                           !.statusAttempts = ch.attempts]
                           ELSE it,
            !.microtasks = IF fresh THEN Append(@, EnqueueTask(h, TRUE)) ELSE @,
            !.queue = shift(@),
            !.chains[c] = ScheduledChain,
            !.ev.settle = "resolved",
            !.ev.attempts = ch.attempts,
            !.ev.suspensions = ch.suspensions]

(* Queue.process resumed in its catch branch: requeue or item.reject(error), *)
(* which queues the settling of enqueue()'s promise, then this.queue.shift() *)
(* and setImmediate                                                          *)
processRejected(S, c, err) ==
  LET ch == S.chains[c]
      h == ch.item
      it == S.items[h]
      requeue == it.attempts < QueueMaxAttempts
      fresh == it.state = "pending" IN
  [S EXCEPT !.items[h] = IF requeue THEN [it EXCEPT !.attempts = @ + 1]
                         ELSE IF fresh
                           THEN [it EXCEPT !.state = "rejected", !.error = err,
                                           !.provider = ch.lastProviderName]
                           ELSE it,
            !.microtasks = IF ~requeue /\ fresh
                             THEN Append(@, EnqueueTask(h, FALSE)) ELSE @,
            !.queue = IF requeue THEN shift(moveHeadToTail(@)) ELSE shift(@),
            !.chains[c] = ScheduledChain,
            !.ev.settle = IF requeue THEN "requeued" ELSE "rejected",
            !.ev.res = err,
            !.ev.lastProviderName = ch.lastProviderName,
            !.ev.lastError = ch.lastError,
            !.ev.lastInvoked = ch.lastInvoked,
            !.ev.attempts = ch.attempts,
            !.ev.suspensions = ch.suspensions]

(* ======================= EmailService ======================= *)

(* sendEmail that skips the idempotency test *)
isDuplicateNever(id, sent) == FALSE

(* this.sentMessageIds.has(message.id) *)
isDuplicate(id, sent) == id \in sent

(* Math.pow for a natural exponent *)
RECURSIVE Pow(_, _)
Pow(b, e) == IF e = 0 THEN 1 ELSE b * Pow(b, e - 1)

(* calculateBackoffDelay with the jitter `0.75 + Math.random()` *)
calculateBackoffDelayWideJitter(attempt, random) ==
  LET raw == config.initialDelay * Pow(config.backoffFactor, attempt - 1)
      cap == config.maxDelay * Pow(FactorDen, attempt - 1)
      delay == IF raw < cap THEN raw ELSE cap IN
  [base |-> delay, delay |-> delay * (3 * RandomDen + 4 * random)]

(* calculateBackoffDelay(attempt) where Math.random() returns              *)
(* random / RandomDen, in exact fractions:                                 *)
(*   base  = Math.min(initialDelay * backoffFactor^(attempt-1), maxDelay)  *)
(*           in units of 1 / FactorDen^(attempt-1)                         *)
(*   delay = base * (0.75 + Math.random() * 0.5)                           *)
(*           in units of 1 / (FactorDen^(attempt-1) * 4 * RandomDen)       *)
calculateBackoffDelay(attempt, random) ==
  LET raw == config.initialDelay * Pow(config.backoffFactor, attempt - 1)
      cap == config.maxDelay * Pow(FactorDen, attempt - 1)
      delay == IF raw < cap THEN raw ELSE cap IN
  [base |-> delay, delay |-> delay * (3 * RandomDen + 2 * random)]

(* processEmail, the for loop over this.providers from index i on: every   *)
(* provider whose breaker is open is skipped, the first other one is       *)
(* called through its breaker; a CIRCUIT rejection by execute() is caught  *)
(* like any send error and the loop goes on                                *)
(* variant: the loop neither tests getState() nor goes through execute() *)
tryProvidersNoSkip(cbs, i, skipped, lastProv, lastErr) ==
  IF i > config.providers
    THEN [kind |-> "exhausted", p |-> 0, b |-> NewBreaker, skipped |-> skipped,
          lastProviderName |-> lastProv, lastError |-> lastErr]
  ELSE [kind |-> "send", p |-> i, b |-> cbs[i], skipped |-> skipped,
        lastProviderName |-> i, lastError |-> lastErr]

RECURSIVE tryProviders(_, _, _, _, _)
tryProviders(cbs, i, skipped, lastProv, lastErr) ==
  IF i > config.providers
    THEN [kind |-> "exhausted", p |-> 0, b |-> NewBreaker, skipped |-> skipped,
          lastProviderName |-> lastProv, lastError |-> lastErr]
  ELSE IF cbs[i].state = "OPEN"
    THEN tryProviders(cbs, i + 1, skipped \cup {i}, i, lastErr)
  ELSE LET r == executeEnter(cbs[i], now) IN
       IF r.admit
         THEN [kind |-> "send", p |-> i, b |-> r.b, skipped |-> skipped,
               lastProviderName |-> i, lastError |-> lastErr]
         ELSE tryProviders(cbs, i + 1, skipped, i, "CIRCUIT")

(* processEmail throws err: its promise is rejected and the continuation of *)
(* Queue.process is queued                                                 *)
throwError(S, c, err) ==
  [S EXCEPT !.chains[c].pc = "thrown",
            !.chains[c].error = err,
            !.microtasks = Append(@, ChainTask(c)),
            !.ev.res = err,
            !.ev.lastProviderName = S.chains[c].lastProviderName,
            !.ev.lastError = S.chains[c].lastError,
            !.ev.lastInvoked = S.chains[c].lastInvoked,
            !.ev.attempts = S.chains[c].attempts,
            !.ev.suspensions = S.chains[c].suspensions]

(* variant: the test after the for loop is `attempts + 1 < maxAttempts`,   *)
(* so the delay after the last but one cycle and the last cycle are lost   *)
afterProvidersGivesUpEarly(S, c, ch, cbs, r) ==
  LET ch2 == [ch EXCEPT !.lastProviderName = r.lastProviderName,
                        !.lastError = r.lastError,
                        !.lastInvoked = IF r.kind = "send" THEN r.p ELSE @]
      S1 == [S EXCEPT !.circuitBreakers =
                         IF r.kind = "send" THEN [cbs EXCEPT ![r.p] = r.b] ELSE cbs,
                      !.sendCalls = IF r.kind = "send" THEN [@ EXCEPT ![r.p] = @ + 1] ELSE @,
                      !.ev.skipped = @ \cup r.skipped,
                      !.ev.invoked = IF r.kind = "send" THEN {r.p} ELSE {}] IN
  IF r.kind = "send"
    THEN [S1 EXCEPT !.chains[c] = [ch2 EXCEPT !.pc = "sending", !.pi = r.p],
                    !.ev.res = "send"]
  ELSE IF ch2.attempts + 1 < config.maxAttempts
    THEN [S1 EXCEPT !.chains[c] = [ch2 EXCEPT !.pc = "backoff", !.pi = 0,
                                              !.suspensions = @ + 1],
                    !.ev.res = "backoff"]
  ELSE throwError([S1 EXCEPT !.chains[c] = [ch2 EXCEPT !.pi = 0]], c,
                  "ALL_PROVIDERS_FAILED")

(* processEmail after the for loop stopped at r: a send is in flight, or   *)
(* every provider was passed and the attempt cycle ends in the backoff     *)
(* delay or, after the last cycle, in the ALL_PROVIDERS_FAILED error       *)
afterProviders(S, c, ch, cbs, r) ==
  LET ch2 == [ch EXCEPT !.lastProviderName = r.lastProviderName,
                        !.lastError = r.lastError,
                        !.lastInvoked = IF r.kind = "send" THEN r.p ELSE @]
      S1 == [S EXCEPT !.circuitBreakers =
                         IF r.kind = "send" THEN [cbs EXCEPT ![r.p] = r.b] ELSE cbs,
                      !.sendCalls = IF r.kind = "send" THEN [@ EXCEPT ![r.p] = @ + 1] ELSE @,
                      !.ev.skipped = @ \cup r.skipped,
                      !.ev.invoked = IF r.kind = "send" THEN {r.p} ELSE {}] IN
  IF r.kind = "send"
    THEN [S1 EXCEPT !.chains[c] = [ch2 EXCEPT !.pc = "sending", !.pi = r.p],
                    !.ev.res = "send"]
  ELSE IF ch2.attempts < config.maxAttempts
    THEN [S1 EXCEPT !.chains[c] = [ch2 EXCEPT !.pc = "backoff", !.pi = 0,
                                              !.suspensions = @ + 1],
                    !.ev.res = "backoff"]
  ELSE throwError([S1 EXCEPT !.chains[c] = [ch2 EXCEPT !.pi = 0]], c,
                  "ALL_PROVIDERS_FAILED")

(* processEmail: one more turn of `while (attempts < maxAttempts)` *)
attemptCycle(S, c) ==
  LET ch == [S.chains[c] EXCEPT !.attempts = @ + 1]
      r == tryProviders(S.circuitBreakers, 1, {}, ch.lastProviderName, ch.lastError) IN
  afterProviders(S, c, ch, S.circuitBreakers, r)

(* execute() resumed after `await fn()`, the provider's promise resolved   *)
(* (ok) or rejected: the breaker's success or failure path, then the       *)
(* status is returned or the error rethrown to processEmail                *)
executeSettled(S, c, ok) ==
  LET p == S.chains[c].pi IN
  [S EXCEPT !.circuitBreakers[p] = IF ok THEN executeSuccess(@) ELSE executeFailure(@, now),
            !.chains[c].pc = IF ok THEN "executeReturned" ELSE "executeThrew",
            !.microtasks = Append(@, ChainTask(c)),
            !.ev.res = IF ok THEN "ok" ELSE "fail"]

(* execute() has rethrown and the error leaves processEmail uncaught *)
sendRejectedRethrows(S, c) ==
  LET ch == S.chains[c]
      p == ch.pi IN
  throwError([S EXCEPT !.chains[c] = [ch EXCEPT !.lastError = "PROVIDER_ERROR",
                                                !.lastProviderName = p]],
             c, "PROVIDER_ERROR")

(* execute() has rethrown and the loop calls the same provider again *)
sendRejectedRetriesSame(S, c) ==
  LET ch == S.chains[c]
      p == ch.pi
      r == tryProviders(S.circuitBreakers, p, {}, p, "PROVIDER_ERROR") IN
  afterProviders(S, c, ch, S.circuitBreakers, r)

(* processEmail resumed with the error execute() rethrew: it is caught and *)
(* the for loop goes on with the next provider                             *)
sendRejected(S, c) ==
  LET ch == S.chains[c]
      p == ch.pi
      r == tryProviders(S.circuitBreakers, p + 1, {}, p, "PROVIDER_ERROR") IN
  afterProviders(S, c, ch, S.circuitBreakers, r)

(* execute() has returned the status, but the loop over the providers goes on *)
sendResolvedNoReturn(S, c) ==
  LET ch == S.chains[c]
      p == ch.pi
      r == tryProviders(S.circuitBreakers, p + 1, {}, p, ch.lastError) IN
  afterProviders([S EXCEPT !.sentMessageIds = @ \cup {S.items[ch.item].id}],
                 c, ch, S.circuitBreakers, r)

(* processEmail resumed with the status execute() returned: the id is      *)
(* recorded and processEmail returns the status, which queues the          *)
(* continuation of Queue.process                                           *)
sendResolved(S, c) ==
  LET ch == S.chains[c]
      id == S.items[ch.item].id IN
  [S EXCEPT !.sentMessageIds = @ \cup {id},
            !.chains[c].pc = "returned",
            !.microtasks = Append(@, ChainTask(c)),
            !.ev.res = "sent",
            !.ev.attempts = ch.attempts,
            !.ev.suspensions = ch.suspensions]

(* processEmail recording the message id as soon as the dispatch starts *)
acquireSlotRecordsId(S, c) ==
  LET r == acquire(S.requestTimestamps, now) IN
  [S EXCEPT !.requestTimestamps = r.ts,
            !.sentMessageIds = @ \cup {S.items[S.chains[c].item].id},
            !.chains[c].pc = IF r.ok THEN "acquired" ELSE "rateLimited",
            !.microtasks = Append(@, ChainTask(c))]

(* processEmail up to `await this.rateLimiter.acquire()`: acquire() runs   *)
(* to its end and the continuation of processEmail is queued               *)
acquireSlot(S, c) ==
  LET r == acquire(S.requestTimestamps, now) IN
  [S EXCEPT !.requestTimestamps = r.ts,
            !.chains[c].pc = IF r.ok THEN "acquired" ELSE "rateLimited",
            !.microtasks = Append(@, ChainTask(c))]

(* processEmail after `await this.rateLimiter.acquire()`: the RATE_LIMIT   *)
(* error, or the while loop, which maxAttempts 0 leaves at once            *)
afterAcquire(S, c) ==
  IF S.chains[c].pc # "acquired"
    THEN throwError(S, c, "RATE_LIMIT")
  ELSE IF S.chains[c].attempts < config.maxAttempts
    THEN attemptCycle(S, c)
    ELSE throwError(S, c, "ALL_PROVIDERS_FAILED")

(* Queue.process() up to its first await: the head item is taken and       *)
(* processEmail called, which runs up to its own first await               *)
process(S, c) ==
  IF Len(S.queue) = 0
    THEN [S EXCEPT !.processing = FALSE, !.chains[c] = IdleChain, !.ev.res = "empty"]
    ELSE LET h == S.queue[1] IN
         acquireSlot([S EXCEPT !.processing = TRUE,
                               !.chains[c] = [IdleChain EXCEPT !.item = h],
                               !.ev.id = S.items[h].id], c)

(* sendEmail after `await this.queue.enqueue(...)`: recordSuccess or       *)
(* recordFailure                                                           *)
recordOutcome(S, ok) ==
  IF ok THEN [S EXCEPT !.metrics.success = @ + 1]
        ELSE [S EXCEPT !.metrics.failure = @ + 1]

(* the promise that enqueue() returned settles as item h's promise did,    *)
(* which queues the continuation of the sendEmail call awaiting it         *)
enqueueSettled(S, h, ok) ==
  [S EXCEPT !.microtasks = Append(@, SendEmailTask(h, ok))]

(* the oldest queued promise job runs, up to its next await *)
runMicrotask(S) ==
  LET m == Head(S.microtasks)
      S0 == [S EXCEPT !.microtasks = Tail(@)] IN
  IF m.job = "enqueue" THEN enqueueSettled(S0, m.h, m.ok)
  ELSE IF m.job = "sendEmail" THEN recordOutcome(S0, m.ok)
  ELSE LET pc == S0.chains[m.c].pc IN
       IF pc \in {"acquired", "rateLimited"} THEN afterAcquire(S0, m.c)
       ELSE IF pc = "executeReturned" THEN sendResolved(S0, m.c)
       ELSE IF pc = "executeThrew" THEN sendRejected(S0, m.c)
       ELSE IF pc = "returned" THEN processResolved(S0, m.c, S0.chains[m.c].pi)
       ELSE processRejected(S0, m.c, S0.chains[m.c].error)

(* the microtask queue is drained: what follows a timer or setImmediate    *)
(* callback of the service before any other callback runs                  *)
RECURSIVE drainMicrotasks(_)
drainMicrotasks(S) ==
  IF S.microtasks = <<>> THEN S ELSE drainMicrotasks(runMicrotask(S))

(* ======================= initial state ======================= *)

InitWith(cfg) ==
  /\ config = cfg
  /\ now = 0
  /\ requestTimestamps = <<>>
  /\ admitted = <<>>
  /\ rejEpisode = NoEpisode
  /\ circuitBreakers = [p \in 1..cfg.providers |-> NewBreaker]
  /\ inflight = [p \in 1..cfg.providers |-> 0]
  /\ cbHist = [p \in 1..cfg.providers |-> <<>>]
  /\ queue = <<>>
  /\ processing = FALSE
  /\ items = <<>>
  /\ chains = [c \in 1..MaxSubmissions |-> IdleChain]
  /\ sentMessageIds = {}
  /\ metrics = [success |-> 0, failure |-> 0]
  /\ sendCalls = [p \in 1..cfg.providers |-> 0]
  /\ microtasks = <<>>
  /\ ev = Event("init", 0, 0, "", {}, {})

InitRL == \E cfg \in RateLimiterConfigs : InitWith(cfg)

InitCB == \E cfg \in CircuitBreakerConfigs : InitWith(cfg)

Init == \E cfg \in ServiceConfigs : InitWith(cfg)

(* before the constructor has run: no breakers, the metrics Map is empty *)
NoMetrics == [success |-> NULL, failure |-> NULL]

InitNew ==
  /\ config \in ConstructorConfigs
  /\ now = 0
  /\ requestTimestamps = <<>>
  /\ admitted = <<>>
  /\ rejEpisode = NoEpisode
  /\ circuitBreakers = <<>>
  /\ inflight = <<>>
  /\ cbHist = <<>>
  /\ queue = <<>>
  /\ processing = FALSE
  /\ items = <<>>
  /\ chains = [c \in 1..MaxSubmissions |-> IdleChain]
  /\ sentMessageIds = {}
  /\ metrics = NoMetrics
  /\ sendCalls = <<>>
  /\ microtasks = <<>>
  /\ ev = Event("init", 0, 0, "", {}, {})

InitBackoff == \E cfg \in BackoffConfigs : InitWith(cfg)

(* the clock: time passes between any two steps *)
Tick ==
  /\ now < MaxTime
  /\ now' = now + 1
  /\ ev' = Event("tick", 0, 0, "", {}, {})

(* ======================= SpecRL ======================= *)

RLAcquire ==
  /\ Len(admitted) < MaxAdmitted
  /\ LET r == acquire(requestTimestamps, now) IN
       /\ r.ok \/ ~EpisodeOpen \/ rejEpisode.count < MaxRejects
       /\ requestTimestamps' = r.ts
       /\ RLHistory(r, now)
       /\ ev' = Event("acquire", 0, 0, IF r.ok THEN "ok" ELSE "RATE_LIMIT", {}, {})
  /\ UNCHANGED <<config, now, cbVars, svcVars>>

RLTick == Tick /\ UNCHANGED <<config, rlVars, cbVars, svcVars>>

NextRL == RLAcquire \/ RLTick

SpecRL == InitRL /\ [][NextRL]_vars

(* getCurrentRequestCount(): the length of the stored array, as it stands. *)
getCurrentRequestCount(ts) == Len(ts)

RLCount ==
  /\ ev' = [op |-> "getCurrentRequestCount", now |-> now,
            count |-> getCurrentRequestCount(requestTimestamps)]
  /\ UNCHANGED <<config, now, rlVars, cbVars, svcVars>>

NextCount == NextRL \/ RLCount

SpecCount == InitRL /\ [][NextCount]_vars

(* ======================= SpecCB ======================= *)

CBCalls(p) == Len(cbHist[p]) + inflight[p]

CBExecute(p) ==
  /\ inflight[p] < MaxInflight
  /\ CBCalls(p) < MaxCalls
  /\ LET r == executeEnter(circuitBreakers[p], now) IN
       /\ circuitBreakers' = [circuitBreakers EXCEPT ![p] = r.b]
       /\ inflight' = [inflight EXCEPT ![p] = IF r.admit THEN @ + 1 ELSE @]
       /\ ev' = Event("execute", p, 0, IF r.admit THEN "called" ELSE "CIRCUIT",
                      IF r.admit THEN {p} ELSE {}, {})
  /\ UNCHANGED <<config, now, rlVars, cbHist, svcVars>>

CBReturn(p, ok) ==
  /\ inflight[p] > 0
  /\ inflight' = [inflight EXCEPT ![p] = @ - 1]
  /\ circuitBreakers' = [circuitBreakers EXCEPT ![p] =
        IF ok THEN executeSuccess(@) ELSE executeFailure(@, now)]
  /\ cbHist' = [cbHist EXCEPT ![p] = Append(@, IF ok THEN "ok" ELSE "fail")]
  /\ ev' = Event("return", p, 0, IF ok THEN "ok" ELSE "fail", {}, {})
  /\ UNCHANGED <<config, now, rlVars, svcVars>>

CBReset(p) ==
  /\ circuitBreakers[p] # NewBreaker \/ cbHist[p] # <<>>
  /\ circuitBreakers' = [circuitBreakers EXCEPT ![p] = reset(@)]
  /\ cbHist' = [cbHist EXCEPT ![p] = <<>>]
  /\ ev' = Event("reset", p, 0, "", {}, {})
  /\ UNCHANGED <<config, now, rlVars, inflight, svcVars>>

CBTick == Tick /\ UNCHANGED <<config, rlVars, cbVars, svcVars>>

NextCB ==
  \/ \E p \in Providers : CBExecute(p)
  \/ \E p \in Providers : CBReturn(p, TRUE)
  \/ \E p \in Providers : CBReturn(p, FALSE)
  \/ \E p \in Providers : CBReset(p)
  \/ CBTick

SpecCB == InitCB /\ [][NextCB]_vars

(* ======================= SpecBackoff ======================= *)

(* const delay = this.calculateBackoffDelay(attempts) *)
Backoff(attempt, random) ==
  /\ ev' = [op |-> "calculateBackoffDelay", attempt |-> attempt, random |-> random,
            res |-> calculateBackoffDelay(attempt, random)]
  /\ UNCHANGED <<config, now, rlVars, cbVars, svcVars>>

NextBackoff ==
  \E attempt \in 1..MaxBackoffAttempt, random \in 0..(RandomDen - 1) : Backoff(attempt, random)

SpecBackoff == InitBackoff /\ [][NextBackoff]_vars

(* ======================= Spec: the EmailService ======================= *)

Items == 1..Len(items)
(* the activations of Queue.process: an enqueue starts at most one, so     *)
(* that there are never more of them than submissions                      *)
Chains == 1..MaxSubmissions

(* the state of the service and the event being recorded *)
Service(e) ==
  [queue |-> queue, processing |-> processing, items |-> items, chains |-> chains,
   requestTimestamps |-> requestTimestamps, circuitBreakers |-> circuitBreakers,
   sentMessageIds |-> sentMessageIds, metrics |-> metrics, sendCalls |-> sendCalls,
   microtasks |-> microtasks, ev |-> e]

Becomes(S) ==
  /\ queue' = S.queue
  /\ processing' = S.processing
  /\ items' = S.items
  /\ chains' = S.chains
  /\ requestTimestamps' = S.requestTimestamps
  /\ circuitBreakers' = S.circuitBreakers
  /\ sentMessageIds' = S.sentMessageIds
  /\ metrics' = S.metrics
  /\ sendCalls' = S.sendCalls
  /\ microtasks' = S.microtasks
  /\ ev' = S.ev
  /\ UNCHANGED <<config, now, admitted, rejEpisode, inflight, cbHist>>

(* Queue.enqueue putting the new item at the head of the array *)
enqueueAtFront(S, id) ==
  LET S1 == [S EXCEPT !.items = Append(@, NewItem(id)),
                      !.queue = <<Len(S.items) + 1>> \o @] IN
  IF S.processing THEN S1
  ELSE process(S1, CHOOSE c \in Chains : S.chains[c].pc = "idle")

(* Queue.enqueue: push, and process() unless an item is being processed *)
enqueue(S, id) ==
  LET S1 == [S EXCEPT !.items = Append(@, NewItem(id)),
                      !.queue = Append(@, Len(S.items) + 1)] IN
  IF S.processing THEN S1
  ELSE process(S1, CHOOSE c \in Chains : S.chains[c].pc = "idle")

(* sendEmail with the message id that uuidv4() returns: the idempotency    *)
(* test, then Queue.enqueue                                                *)
SendEmail(id) ==
  IF isDuplicate(id, sentMessageIds)
    THEN /\ ev' = Event("sendEmail", 0, id, "DUPLICATE_MESSAGE", {}, {})
         /\ UNCHANGED <<config, now, rlVars, cbVars, svcVars>>
    ELSE /\ Len(items) < MaxSubmissions
         /\ Becomes(enqueue(Service(Event("sendEmail", 0, id, "enqueued", {}, {})), id))

(* the oldest queued continuation is that of activation c *)
IsNext(c) == microtasks # <<>> /\ Head(microtasks).c = c

(* processEmail is resumed after `await this.rateLimiter.acquire()` *)
Continue(c) ==
  /\ IsNext(c)
  /\ chains[c].pc \in {"acquired", "rateLimited"}
  /\ Becomes(runMicrotask(
       Service(Event("continue", 0, items[chains[c].item].id, "", {}, {}))))

(* processEmail is resumed after `await circuitBreaker.execute(...)` *)
ProcessEmailResumes(c) ==
  /\ IsNext(c)
  /\ chains[c].pc \in {"executeReturned", "executeThrew"}
  /\ Becomes(runMicrotask(
       Service(Event("processEmail", chains[c].pi, items[chains[c].item].id, "", {}, {}))))

(* Queue.process is resumed after `await item.process(item.message)` *)
QueueResumes(c) ==
  /\ IsNext(c)
  /\ chains[c].pc \in {"returned", "thrown"}
  /\ Becomes(runMicrotask(
       Service(Event("queue", chains[c].pi, items[chains[c].item].id, "", {}, {}))))

(* the promise that enqueue() returned settles *)
EnqueueSettles ==
  /\ IsNext(0)
  /\ Head(microtasks).job = "enqueue"
  /\ Becomes(runMicrotask(
       Service(Event("enqueue", 0, items[Head(microtasks).h].id,
                     IF Head(microtasks).ok THEN "resolved" ELSE "rejected", {}, {}))))

(* sendEmail is resumed after `await this.queue.enqueue(...)` *)
SendEmailResumes ==
  /\ IsNext(0)
  /\ Head(microtasks).job = "sendEmail"
  /\ Becomes(runMicrotask(
       Service(Event("record", 0, items[Head(microtasks).h].id,
                     IF Head(microtasks).ok THEN "success" ELSE "failure", {}, {}))))

(* the callback of setImmediate(() => this.process()); it runs when no     *)
(* microtask is queued, and the microtasks it queues run before anything   *)
(* else                                                                    *)
ProcessNext(c) ==
  /\ microtasks = <<>>
  /\ chains[c].pc = "scheduled"
  /\ Becomes(drainMicrotasks(process(Service(Event("process", 0, 0, "", {}, {})), c)))

(* the backoff timer fires: processEmail is resumed after the setTimeout   *)
(* promise, likewise                                                       *)
BackoffDone(c) ==
  /\ microtasks = <<>>
  /\ chains[c].pc = "backoff"
  /\ Becomes(drainMicrotasks(attemptCycle(
       Service(Event("retry", 0, items[chains[c].item].id, "", {}, {})), c)))

(* the provider's promise resolves and execute() is resumed *)
SendSucceeds(c) ==
  /\ chains[c].pc = "sending"
  /\ Becomes(executeSettled(
       Service(Event("sendOk", chains[c].pi, items[chains[c].item].id, "", {}, {})), c, TRUE))

(* the provider's promise rejects and execute() is resumed *)
SendFails(c) ==
  /\ chains[c].pc = "sending"
  /\ Becomes(executeSettled(
       Service(Event("sendFail", chains[c].pi, items[chains[c].item].id, "", {}, {})), c, FALSE))

(* the items whose dispatch is in progress *)
InFlight ==
  {chains[c].item : c \in {d \in Chains : chains[d].pc \notin {"idle", "scheduled"}}}

(* clearQueue() that lowers the processing flag and keeps the array *)
ClearQueueKeepsArray ==
  /\ queue # <<>> \/ processing
  /\ processing' = FALSE
  /\ items' = [h \in Items |->
        IF h \in Queued(queue)
          THEN [items[h] EXCEPT !.cleared = IF h \in InFlight THEN "inflight" ELSE "waiting"]
          ELSE items[h]]
  /\ ev' = Event("clearQueue", 0, 0, "", {}, {})
  /\ UNCHANGED <<config, now, rlVars, cbVars, queue, chains, sentMessageIds, metrics,
                 sendCalls, microtasks>>

(* clearQueue(): Queue.clear() *)
ClearQueue ==
  /\ queue # <<>> \/ processing
  /\ queue' = <<>>
  /\ processing' = FALSE
  /\ items' = [h \in Items |->
        IF h \in Queued(queue)
          THEN [items[h] EXCEPT !.cleared = IF h \in InFlight THEN "inflight" ELSE "waiting"]
          ELSE items[h]]
  /\ ev' = Event("clearQueue", 0, 0, "", {}, {})
  /\ UNCHANGED <<config, now, rlVars, cbVars, chains, sentMessageIds, metrics,
                 sendCalls, microtasks>>

ResetCircuitBreakers ==
  /\ \E p \in Providers : circuitBreakers[p] # NewBreaker
  /\ circuitBreakers' = [p \in Providers |-> reset(circuitBreakers[p])]
  /\ ev' = Event("resetCircuitBreakers", 0, 0, "", {}, {})
  /\ UNCHANGED <<config, now, rlVars, inflight, cbHist, svcVars>>

ClearSentMessageIds ==
  /\ sentMessageIds # {}
  /\ sentMessageIds' = {}
  /\ ev' = Event("clearSentMessageIds", 0, 0, "", {}, {})
  /\ UNCHANGED <<config, now, rlVars, cbVars, queue, processing, items, chains, metrics,
                 sendCalls, microtasks>>

SvcTick == Tick /\ UNCHANGED <<config, rlVars, cbVars, svcVars>>

(* the processing that sendEmail starts *)
NextProcessing ==
  \/ \E c \in Chains : Continue(c)
  \/ \E c \in Chains : ProcessEmailResumes(c)
  \/ \E c \in Chains : QueueResumes(c)
  \/ EnqueueSettles
  \/ SendEmailResumes
  \/ \E c \in Chains : ProcessNext(c)
  \/ \E c \in Chains : BackoffDone(c)
  \/ \E c \in Chains : SendSucceeds(c)
  \/ \E c \in Chains : SendFails(c)

(* sendEmail, with ids that uuidv4() may repeat (as when it is mocked) *)
NextBase == (\E id \in MsgIds : SendEmail(id)) \/ NextProcessing

(* sendEmail with the ids of an unmocked uuidv4(), each one new *)
SendEmailNewId == SendEmail(Len(items) + 1)

(* ... with the administrative resets of breakers and idempotency set *)
NextAdmin == NextBase \/ ResetCircuitBreakers \/ ClearSentMessageIds

(* ... with clearQueue() *)
NextClear == SendEmailNewId \/ NextProcessing \/ ClearQueue

(* ... with the clock advancing *)
NextTime == NextBase \/ SvcTick

(* validateConfig: `config.retryConfig?.maxAttempts && ... < 1`, where 0   *)
(* is falsy                                                                *)
validateConfig(cfg) ==
  IF cfg.providers = 0 THEN "INVALID_CONFIG"
  ELSE IF cfg.maxAttempts # 0 /\ cfg.maxAttempts < 1 THEN "INVALID_CONFIG"
  ELSE "ok"

(* the constructor has run to its end (initializeMetrics) *)
Constructed == metrics # NoMetrics

(* new EmailService(config) *)
New ==
  /\ ev.op = "init"
  /\ ~Constructed
  /\ LET v == validateConfig(config) IN
       /\ ev' = Event("new", 0, 0, v, {}, {})
       /\ IF v = "ok"
            THEN /\ circuitBreakers' = [p \in Providers |-> NewBreaker]
                 /\ inflight' = [p \in Providers |-> 0]
                 /\ cbHist' = [p \in Providers |-> <<>>]
                 /\ sendCalls' = [p \in Providers |-> 0]
                 /\ metrics' = [success |-> 0, failure |-> 0]
            ELSE UNCHANGED <<circuitBreakers, inflight, cbHist, sendCalls, metrics>>
  /\ UNCHANGED <<config, now, rlVars, queue, processing, items, chains, sentMessageIds,
                 microtasks>>

(* construction, then the service as in Spec *)
NextNew == New \/ (Constructed /\ NextBase)

SpecNew == InitNew /\ [][NextNew]_vars

Spec == Init /\ [][NextBase]_vars

SpecAdmin == Init /\ [][NextAdmin]_vars

SpecClear == Init /\ [][NextClear]_vars

SpecTime == Init /\ [][NextTime]_vars

(* ======================= properties of the CircuitBreaker ======================= *)

NumFails(h) == Cardinality({i \in 1..Len(h) : h[i] = "fail"})

RECURSIVE TrailingFails(_)
TrailingFails(h) ==
  IF Len(h) = 0 \/ h[Len(h)] # "fail" THEN 0
  ELSE 1 + TrailingFails(SubSeq(h, 1, Len(h) - 1))

IsOpenWaiting(b) ==
  b.state = "OPEN" /\ b.lastFailureTime # NULL /\ now - b.lastFailureTime < config.resetTimeout

IsOpenElapsed(b) ==
  b.state = "OPEN" /\ b.lastFailureTime # NULL /\ now - b.lastFailureTime >= config.resetTimeout

(* C4: a breaker that started closed (constructed or reset) is still closed *)
(* after fewer than failureThreshold failed operations, and the failed     *)
(* operation that makes failureThreshold consecutive failures leaves it    *)
(* open.                                                                   *)
C4_OpensAtThreshold ==
  /\ [](\A p \in Providers :
          NumFails(cbHist[p]) < config.failureThreshold => circuitBreakers[p].state = "CLOSED")
  /\ [][\A p \in Providers :
          (ev'.op = "return" /\ ev'.p = p /\ ev'.res = "fail"
             /\ TrailingFails(cbHist'[p]) = config.failureThreshold)
          => circuitBreakers'[p].state = "OPEN"]_vars

C4_Witness ==
  \E p \in Providers :
    /\ ev.op = "return" /\ ev.p = p /\ ev.res = "fail"
    /\ TrailingFails(cbHist[p]) = config.failureThreshold
    /\ Len(cbHist[p]) > config.failureThreshold
    /\ circuitBreakers[p].state = "OPEN"

(* C5: execute() on an open breaker before resetTimeout has elapsed since  *)
(* lastFailureTime fails with the circuit error, does not call the         *)
(* operation and leaves state, failureCount and lastFailureTime unchanged. *)
C5_OpenRejects ==
  [][\A p \in Providers :
       (ev'.op = "execute" /\ ev'.p = p /\ IsOpenWaiting(circuitBreakers[p]))
       => /\ ev'.res = "CIRCUIT"
          /\ ev'.invoked = {}
          /\ inflight'[p] = inflight[p]
          /\ circuitBreakers'[p] = circuitBreakers[p]]_vars

C5_Witness ==
  \E p \in Providers :
    /\ ev.op = "execute" /\ ev.p = p /\ ev.res = "CIRCUIT"
    /\ IsOpenWaiting(circuitBreakers[p])
    /\ now > circuitBreakers[p].lastFailureTime

(* C6: execute() on an open breaker at least resetTimeout after            *)
(* lastFailureTime calls the operation as a half-open trial; the trial's   *)
(* success leaves the breaker closed and zeroed, its failure leaves it     *)
(* open with lastFailureTime the time of that failure.                     *)
C6_TrialAfterTimeout ==
  [][\A p \in Providers :
       /\ (ev'.op = "execute" /\ ev'.p = p /\ IsOpenElapsed(circuitBreakers[p]))
          => (ev'.res = "called" /\ circuitBreakers'[p].state = "HALF_OPEN")
       /\ (ev'.op = "return" /\ ev'.p = p /\ circuitBreakers[p].state = "HALF_OPEN")
          => IF ev'.res = "ok"
               THEN circuitBreakers'[p] = NewBreaker
               ELSE /\ circuitBreakers'[p].state = "OPEN"
                    /\ circuitBreakers'[p].lastFailureTime = now]_vars

(* ======================= properties of the RateLimiter ======================= *)

(* the admitted timestamps inside the window that trails time t *)
AdmittedIn(t) ==
  Cardinality({i \in 1..Len(admitted) : admitted[i] > t - config.timeWindow /\ admitted[i] <= t})

Occurrences(ts, n) == Cardinality({i \in 1..Len(ts) : ts[i] = n})

(* C9: acquire() is rejected exactly when maxRequests admitted timestamps  *)
(* lie within the trailing window, no trailing window ever holds more than *)
(* maxRequests admitted requests, and a rejected acquire() records nothing.*)
C9_WindowNeverExceeded ==
  /\ [](\A t \in 0..now : AdmittedIn(t) <= config.maxRequests)
  /\ [][ev'.op = "acquire" =>
          /\ (ev'.res = "RATE_LIMIT") <=> (AdmittedIn(now) = config.maxRequests)
          /\ ev'.res = "RATE_LIMIT" =>
               /\ Occurrences(requestTimestamps', now) = Occurrences(requestTimestamps, now)
               /\ Len(requestTimestamps') <= Len(requestTimestamps)]_vars

C9_Witness ==
  /\ ev.op = "acquire" /\ ev.res = "RATE_LIMIT"
  /\ AdmittedIn(now) = config.maxRequests
  /\ now > 0

(* C10: once a window-full rejection has happened, the acquire() issued    *)
(* when timeWindow has elapsed past the oldest admitted timestamp is       *)
(* admitted and recorded, however many rejected calls came in between.     *)
C10_AdmittedAfterWindow ==
  [][(ev'.op = "acquire" /\ EpisodeOpen /\ now >= rejEpisode.oldest + config.timeWindow)
     => /\ ev'.res = "ok"
        /\ Len(requestTimestamps') > 0
        /\ requestTimestamps'[Len(requestTimestamps')] = now]_vars

C10_Witness ==
  /\ ev.op = "acquire" /\ ev.res = "ok"
  /\ rejEpisode.count >= 2
  /\ rejEpisode.admittedAt = rejEpisode.oldest + config.timeWindow
  /\ now = rejEpisode.admittedAt

(* ======================= properties of the EmailService ======================= *)

(* nothing of the service is left to run *)
Quiescent == microtasks = <<>> /\ \A c \in Chains : chains[c].pc = "idle"

(* C1: without clearQueue(), every accepted submission settles: once no    *)
(* processing is left to run (no send in flight, no continuation, timer or *)
(* setImmediate pending) no submission is still pending.                   *)
C1_EverySubmissionSettles ==
  Quiescent => \A h \in Items : items[h].state # "pending"

(* C2: sendEmail with an id that is recorded as sent fails with            *)
(* DUPLICATE_MESSAGE and changes nothing: no provider is called, queue,    *)
(* rate window, breakers and counters are as before.                       *)
C2_DuplicateRejected ==
  [][\A id \in MsgIds :
       (ev'.op = "sendEmail" /\ ev'.id = id /\ id \in sentMessageIds)
       => /\ ev'.res = "DUPLICATE_MESSAGE"
          /\ ev'.invoked = {}
          /\ UNCHANGED <<queue, processing, items, chains, requestTimestamps,
                         circuitBreakers, metrics, sentMessageIds, microtasks>>]_vars

C2_Witness ==
  /\ ev.op = "sendEmail" /\ ev.res = "DUPLICATE_MESSAGE"
  /\ ev.id \in sentMessageIds
  /\ \E h \in Items : items[h].id = ev.id /\ items[h].state = "resolved"

(* C3: while the idempotency set is not cleared at most one provider send  *)
(* succeeds per message id: no send succeeds for an id that is already     *)
(* recorded as sent.                                                       *)
C3_AtMostOneSendPerId ==
  [][ev'.op = "sendOk" => ev'.id \notin sentMessageIds]_vars

(* C7: a provider whose circuit is open is tried again once resetTimeout   *)
(* has elapsed since its last failure: the dispatch of a submission that   *)
(* starts after the timeout does not pass over such a provider.            *)
(* (lastFailureTime > 0 keeps the clock value 0 out of it.)                *)
C7_RetriedAfterTimeout ==
  [][\A p \in Providers :
       (ev'.op \in {"continue", "process"}
          /\ IsOpenElapsed(circuitBreakers[p])
          /\ circuitBreakers[p].lastFailureTime > 0)
       => p \notin ev'.skipped]_vars

(* C8: a dispatch that finds every provider's circuit open, resetTimeout   *)
(* not elapsed, calls no provider, and the error it fails with is a        *)
(* circuit-open error.                                                     *)
CircuitErrors == {"CIRCUIT", "CIRCUIT_OPEN", "CIRCUIT_BREAKER_OPEN"}

C8_AllOpenFailsCircuitOpen ==
  [][(ev'.op \in {"continue", "process", "retry"}
        /\ ev'.skipped = Providers
        /\ \A p \in Providers : IsOpenWaiting(circuitBreakers[p]))
     => /\ ev'.invoked = {}
        /\ ev'.res # "backoff" => ev'.res \in CircuitErrors]_vars

(* the rate window at the present time holds maxRequests admitted requests *)
WindowFull == Len(cleanupOldRequests(requestTimestamps, now)) >= config.maxRequests

(* C11: a submission dispatched while the rate window is full fails with   *)
(* the RATE_LIMIT error and no provider is called for it; a submission     *)
(* dispatched when the window has room reaches the first healthy provider  *)
(* and, its send succeeding, resolves.                                     *)
C11_RateLimitedSubmissionFails ==
  [][/\ \A c \in Chains :
          (ev'.op = "continue" /\ IsNext(c) /\ chains[c].pc = "rateLimited")
          => /\ ev'.invoked = {}
             /\ ev'.res = "RATE_LIMIT"
             /\ chains'[c].pc = "thrown"
     /\ \A c \in Chains :
          (ev'.op = "queue" /\ IsNext(c) /\ chains[c].pc = "thrown"
             /\ chains[c].error = "RATE_LIMIT" /\ items[chains[c].item].state = "pending")
          => /\ items'[chains[c].item].state = "rejected"
             /\ items'[chains[c].item].error = "RATE_LIMIT"
     /\ (ev'.op = "process" /\ queue # <<>> /\ WindowFull)
          => /\ ev'.invoked = {}
             /\ ev'.res = "RATE_LIMIT"
             /\ items'[queue[1]].state = "rejected"
             /\ items'[queue[1]].error = "RATE_LIMIT"
     /\ (ev'.op = "process" /\ queue # <<>> /\ ~WindowFull
            /\ circuitBreakers[1].state = "CLOSED")
          => ev'.invoked = {1}
     /\ \A c \in Chains :
          (ev'.op = "processEmail" /\ IsNext(c) /\ chains[c].pc = "executeReturned")
          => chains'[c].pc = "returned"
     /\ \A c \in Chains :
          (ev'.op = "queue" /\ IsNext(c) /\ chains[c].pc = "returned"
             /\ items[chains[c].item].state = "pending")
          => items'[chains[c].item].state = "resolved"]_vars

(* C12: when a provider's send succeeds the dispatch ends there: no other  *)
(* provider is called, no backoff and no further attempt cycle starts, and *)
(* the status the submission resolves with names that provider and carries *)
(* the number of the attempt cycle of the success, from 1 to maxAttempts.  *)
C12_FirstSuccessEndsDispatch ==
  [][\A c \in Chains :
       /\ (ev'.op = "sendOk" /\ chains[c].pc = "sending" /\ chains'[c] # chains[c])
          => /\ ev'.invoked = {}
             /\ chains'[c] = [chains[c] EXCEPT !.pc = "executeReturned"]
       /\ (ev'.op = "processEmail" /\ IsNext(c) /\ chains[c].pc = "executeReturned")
          => /\ ev'.invoked = {}
             /\ chains'[c] = [chains[c] EXCEPT !.pc = "returned"]
       /\ (ev'.op = "queue" /\ IsNext(c) /\ chains[c].pc = "returned")
          => /\ ev'.invoked = {}
             /\ chains'[c].pc = "scheduled"
             /\ items[chains[c].item].state = "pending"
             /\ items'[chains[c].item].state = "resolved"
             /\ items'[chains[c].item].provider = chains[c].pi
             /\ items'[chains[c].item].statusAttempts = chains[c].attempts
             /\ chains[c].attempts \in 1..config.maxAttempts]_vars

C12_Witness ==
  /\ ev.op = "queue" /\ ev.settle = "resolved"
  /\ config.maxAttempts >= 2
  /\ \E h \in Items : /\ items[h].state = "resolved"
                      /\ items[h].statusAttempts = config.maxAttempts
                      /\ items[h].provider = 1

(* C13: providers are tried in configured order.  On a fresh service with  *)
(* two providers, the first submission's dispatch in which provider 1      *)
(* fails and provider 2 (which has never failed) succeeds resolves with    *)
(* provider 2 and attempts 1; provider 1's send was called exactly once    *)
(* and its breaker's failure count is exactly 1.                           *)
C13_SecondProviderAfterFirstFails ==
  [][(/\ ev'.op = "queue" /\ ev'.p = 2
      /\ config.providers = 2
      /\ \E c \in Chains : IsNext(c) /\ chains[c].pc = "returned" /\ chains[c].item = 1
      /\ items[1].attempts = 0
      /\ circuitBreakers[2].failureCount = 0)
     => /\ items'[1].state = "resolved"
        /\ items'[1].provider = 2
        /\ items'[1].statusAttempts = 1
        /\ sendCalls'[1] = 1
        /\ sendCalls'[2] = 1
        /\ circuitBreakers'[1].failureCount = 1]_vars

C13_Witness ==
  /\ ev.op = "queue" /\ ev.p = 2
  /\ Len(items) = 1
  /\ items[1].state = "resolved" /\ items[1].provider = 2 /\ items[1].statusAttempts = 1
  /\ sendCalls = <<1, 1>>
  /\ circuitBreakers[1].failureCount = 1
  /\ circuitBreakers[1].state = "CLOSED"

(* C14: a dispatch whose maxAttempts attempt cycles all end without a      *)
(* successful send fails with ALL_PROVIDERS_FAILED; the error names the    *)
(* last provider whose send the dispatch called and carries that           *)
(* provider's error, also when other providers were skipped as open.       *)
C14_ErrorNamesLastTried ==
  [][(ev'.settle \in {"requeued", "rejected"} /\ ev'.res # "RATE_LIMIT")
     => /\ ev'.res = "ALL_PROVIDERS_FAILED"
        /\ ev'.lastInvoked # 0
             => /\ ev'.lastProviderName = ev'.lastInvoked
                /\ ev'.lastError = "PROVIDER_ERROR"]_vars

(* the submissions whose queue promise has settled in the given way *)
Settled(st) == {h \in Items : items[h].state = st}

(* the submissions whose sendEmail call has returned or thrown: the queue  *)
(* promise has settled and sendEmail's continuation has run                *)
Returned(st) ==
  {h \in Settled(st) : \A i \in 1..Len(microtasks) : microtasks[i].h # h}

(* C15: the success counter is the number of submissions resolved, the     *)
(* failure counter the number rejected, at every moment; and once nothing  *)
(* is left to run every accepted submission has been counted: S + F = N.   *)
C15_CountersMatchOutcomes ==
  /\ metrics.success = Cardinality(Returned("resolved"))
  /\ metrics.failure = Cardinality(Returned("rejected"))
  /\ Quiescent => metrics.success + metrics.failure = Len(items)

(* C16: the constructor fails with INVALID_CONFIG, and leaves no service,  *)
(* for every configuration without providers and for every configuration  *)
(* whose retry maxAttempts is below 1, zero included.                      *)
C16_InvalidConfigRejected ==
  [][(ev'.op = "new" /\ (config.providers = 0 \/ config.maxAttempts < 1))
     => (ev'.res = "INVALID_CONFIG" /\ ~Constructed')]_vars

(* an activation of Queue.process that has not run to its end *)
ActiveChains == {c \in Chains : chains[c].pc # "idle"}

(* C17: without clear(), at most one activation of Queue.process, hence at *)
(* most one dispatch, is in progress at any time: a sendEmail that arrives *)
(* while the processing flag is up (an item in dispatch, or the next start *)
(* scheduled) only appends to the queue and starts nothing.                *)
C17_SingleProcessingChain ==
  /\ [](Cardinality(ActiveChains) <= 1)
  /\ [](processing <=> ActiveChains # {})
  /\ [][(ev'.op = "sendEmail" /\ ev'.res = "enqueued" /\ processing)
        => /\ chains' = chains
           /\ queue' = Append(queue, Len(items'))
           /\ ev'.invoked = {}]_vars

C17_Witness ==
  /\ ev.op = "sendEmail" /\ ev.res = "enqueued"
  /\ \E c \in Chains : chains[c].pc = "scheduled" /\ ActiveChains = {c}
  /\ \E h \in Items : items[h].state = "resolved"
  /\ Len(queue) = 1

(* C18: when the dispatch of the head item fails and its attempt counter   *)
(* is below the queue's maxAttempts, the item is afterwards still in the   *)
(* queue, at the tail, unsettled, its counter one higher; when the counter *)
(* is exhausted the item is rejected and is no longer in the queue.        *)
C18_FailedItemRequeuedAtTail ==
  [][(ev'.settle \in {"requeued", "rejected"} /\ queue # <<>>)
     => LET h == queue[1] IN
        IF items[h].attempts < QueueMaxAttempts
          THEN /\ queue' # <<>>
               /\ queue'[Len(queue')] = h
               /\ items'[h].attempts = items[h].attempts + 1
               /\ items'[h].state = "pending"
          ELSE /\ items'[h].state = "rejected"
               /\ h \notin Queued(queue')]_vars

(* C19: after clear() the queue is empty, and no item that was in the      *)
(* queue when clear() ran, the item in flight included, is resolved or     *)
(* rejected afterwards.                                                    *)
C19_ClearedNeverSettled ==
  /\ [][ev'.op = "clearQueue" => queue' = <<>>]_vars
  /\ [][\A h \in Items :
          (items[h].cleared # "" /\ items[h].state = "pending")
          => items'[h].state = "pending"]_vars

(* C19 as amended: after clear() the queue is empty, and no item that was  *)
(* waiting in the queue when clear() ran is resolved or rejected           *)
(* afterwards; the item in flight at that moment can still be settled by   *)
(* its dispatch.                                                           *)
C19_WaitingNeverSettled ==
  /\ [][ev'.op = "clearQueue" => queue' = <<>>]_vars
  /\ [][\A h \in Items :
          (items[h].cleared = "waiting" /\ items[h].state = "pending")
          => items'[h].state = "pending"]_vars

C19_Witness ==
  /\ Quiescent
  /\ queue = <<>>
  /\ \E h \in Items : items[h].cleared = "waiting" /\ items[h].state = "pending"
  /\ \E h \in Items : items[h].cleared = "inflight" /\ items[h].state = "resolved"
  /\ \E h \in Items : items[h].cleared = "" /\ items[h].state = "resolved"

(* ======================= properties of the backoff delay ======================= *)

(* min(initialDelay * backoffFactor^(k-1), maxDelay), in units of          *)
(* 1 / FactorDen^(k-1)                                                     *)
BaseDelay(k) ==
  LET raw == config.initialDelay * Pow(config.backoffFactor, k - 1)
      cap == config.maxDelay * Pow(FactorDen, k - 1) IN
  IF raw <= cap THEN raw ELSE cap

(* the delay returned for attempt k is within [0.75, 1.25] times           *)
(* BaseDelay(k), which is at most maxDelay, so that the delay is at most   *)
(* 1.25 * maxDelay                                                         *)
DelayWithinJitter ==
  ev.op = "calculateBackoffDelay" =>
    LET k == ev.attempt
        unit == Pow(FactorDen, k - 1) IN
    /\ 3 * RandomDen * BaseDelay(k) <= ev.res.delay
    /\ ev.res.delay <= 5 * RandomDen * BaseDelay(k)
    /\ ev.res.base = BaseDelay(k)
    /\ ev.res.base <= config.maxDelay * unit
    /\ ev.res.delay <= 5 * RandomDen * config.maxDelay * unit

(* the un-jittered delay of attempt k is at least that of every earlier    *)
(* attempt                                                                 *)
BaseNonDecreasing ==
  ev.op = "calculateBackoffDelay" =>
    \A j \in 1..ev.attempt :
      BaseDelay(j) * Pow(FactorDen, ev.attempt - j) <= ev.res.base

(* C20: for every attempt k >= 1 the backoff delay is within [0.75, 1.25]  *)
(* times min(initialDelay * backoffFactor^(k-1), maxDelay); the            *)
(* un-jittered delay is non-decreasing in k and at most maxDelay, the      *)
(* jittered delay at most 1.25 * maxDelay.                                 *)
C20_BackoffDelayBounds == DelayWithinJitter /\ BaseNonDecreasing

(* C20 as amended: the same for non-negative delays, the un-jittered delay *)
(* being non-decreasing in k when backoffFactor >= 1.                      *)
C20_BackoffDelayBoundsFactor ==
  /\ DelayWithinJitter
  /\ config.backoffFactor >= FactorDen => BaseNonDecreasing

C20_Witness ==
  /\ ev.op = "calculateBackoffDelay"
  /\ ev.attempt >= 3 /\ ev.random > 0
  /\ config.backoffFactor > FactorDen
  /\ ev.res.base = config.maxDelay * Pow(FactorDen, ev.attempt - 1)
  /\ BaseDelay(1) < config.maxDelay
  /\ BaseDelay(2) < config.maxDelay * FactorDen
  /\ ev.res.delay > 4 * RandomDen * ev.res.base

(* ======================= further properties of the EmailService ======================= *)

DispatchErrors == {"RATE_LIMIT", "ALL_PROVIDERS_FAILED"}

(* C21: a submission is only ever rejected with RATE_LIMIT or with         *)
(* ALL_PROVIDERS_FAILED: a provider's error or a breaker's rejection never *)
(* ends a dispatch by itself, and ALL_PROVIDERS_FAILED is raised only      *)
(* after maxAttempts attempt cycles.                                       *)
C21_OnlyWrappedErrors ==
  /\ [](\A h \in Items : items[h].state = "rejected" => items[h].error \in DispatchErrors)
  /\ [](\A c \in Chains : chains[c].pc = "thrown" => chains[c].error \in DispatchErrors)
  /\ [][ev'.settle \in {"requeued", "rejected"}
        => /\ ev'.res \in DispatchErrors
           /\ ev'.res = "ALL_PROVIDERS_FAILED" => ev'.attempts = config.maxAttempts
           /\ ev'.res = "RATE_LIMIT" => ev'.attempts = 0]_vars

C21_Witness ==
  /\ ev.op = "queue" /\ ev.settle = "rejected"
  /\ ev.res = "ALL_PROVIDERS_FAILED" /\ ev.lastError = "PROVIDER_ERROR"
  /\ ev.attempts = config.maxAttempts
  /\ \E h \in Items : items[h].state = "rejected" /\ items[h].error = "ALL_PROVIDERS_FAILED"

(* ---------------- further properties of the RateLimiter ---------------- *)

(* C22: getCurrentRequestCount() returns the number of admitted timestamps *)
(* inside the trailing timeWindow at the time of the call: a timestamp     *)
(* that has left the window is not counted, even when no acquire() has     *)
(* been called since it left.                                              *)
C22_CountIsWindowCount ==
  ev.op = "getCurrentRequestCount" => ev.count = AdmittedIn(now)

(* ------------------ further properties of the Queue -------------------- *)

(* C23: without clear(), an entry leaves the queue only at its own         *)
(* terminal resolution: an item that a processing step removes has had its *)
(* promise resolved or rejected, and the step that ends the dispatch of    *)
(* one item removes no other item.                                         *)
C23_RemovedOnlyWhenSettled ==
  [][\A h \in Queued(queue) \ Queued(queue') :
       /\ items'[h].state \in {"resolved", "rejected"}
       /\ \E c \in Chains : chains[c].item = h /\ chains[c].pc \notin {"idle", "scheduled"}]_vars

(* ------------- further properties of the EmailService (2) -------------- *)

(* C24: processEmail never invokes a provider's send while that provider's *)
(* circuit breaker is OPEN, and passing over a provider whose breaker is   *)
(* OPEN leaves the breaker's state, failureCount and lastFailureTime as    *)
(* they were.                                                              *)
C24_OpenProviderNotInvoked ==
  [][\A p \in Providers :
       /\ (p \in ev'.invoked \/ sendCalls'[p] # sendCalls[p])
            => /\ circuitBreakers[p].state # "OPEN"
               /\ circuitBreakers'[p].state # "OPEN"
       /\ p \in ev'.skipped
            => /\ circuitBreakers[p].state = "OPEN"
               /\ circuitBreakers'[p] = circuitBreakers[p]
               /\ sendCalls'[p] = sendCalls[p]]_vars

C24_Witness ==
  /\ ev.op \in {"continue", "process", "retry"}
  /\ ev.skipped = {1} /\ ev.invoked = {2}
  /\ circuitBreakers[1].state = "OPEN"
  /\ circuitBreakers[1].failureCount = config.failureThreshold
  /\ \E c \in Chains : chains[c].pc = "sending" /\ chains[c].pi = 2

(* the activations of Queue.process that are inside a dispatch: past the  *)
(* call of the processor and before its promise settled                    *)
Dispatching ==
  {c \in Chains : chains[c].pc \notin {"idle", "scheduled", "returned", "thrown"}}

(* C25: with clear() called while an item is in flight and a new message   *)
(* enqueued before that dispatch completes, still at most one dispatch     *)
(* runs at a time, and the new item stays in the queue until its own       *)
(* dispatch has finished with its promise resolved.                        *)
C25_OneDispatchDespiteClear ==
  /\ [](Cardinality(Dispatching) <= 1)
  /\ [][(ev'.op = "queue" /\ ev'.settle = "resolved")
        => \A h \in Queued(queue) \ Queued(queue') : items'[h].state = "resolved"]_vars

(* -------------- further properties of the CircuitBreaker --------------- *)

(* C26: in HALF_OPEN only one trial call is permitted: an execute() that   *)
(* arrives while the breaker is HALF_OPEN, the trial operation still in    *)
(* flight, does not invoke its operation.                                  *)
C26_SingleTrialCall ==
  [][\A p \in Providers :
       (ev'.op = "execute" /\ ev'.p = p
          /\ circuitBreakers[p].state = "HALF_OPEN" /\ inflight[p] > 0)
       => (ev'.invoked = {} /\ inflight'[p] = inflight[p])]_vars

(* ---------------- further properties of the Queue (2) ------------------ *)

(* C27: the queue invokes the dispatch function of one item at most        *)
(* maxAttempts times: a dispatch that is running is at most the            *)
(* maxAttempts-th of its item (item.attempts counts the failed ones before *)
(* it), and a failed dispatch is requeued only if another one is still     *)
(* allowed, so that with maxAttempts = 1 no failed dispatch is requeued.   *)
C27_AtMostMaxAttemptsDispatches ==
  /\ [](\A c \in Dispatching : items[chains[c].item].attempts + 1 <= QueueMaxAttempts)
  /\ [][(ev'.settle = "requeued" /\ queue # <<>>)
        => items[queue[1]].attempts + 1 < QueueMaxAttempts]_vars

(* C28: every transition of a breaker into CLOSED, by the success of the   *)
(* half-open trial or by reset(), leaves failureCount 0 and                *)
(* lastFailureTime null; reset() does so from every state, and a second    *)
(* reset() changes nothing.                                                *)
C28_ClosedMeansZeroed ==
  /\ [][\A p \in Providers :
          /\ (circuitBreakers[p].state # "CLOSED" /\ circuitBreakers'[p].state = "CLOSED")
               => (circuitBreakers'[p].failureCount = 0
                   /\ circuitBreakers'[p].lastFailureTime = NULL)
          /\ (ev'.op = "reset" /\ ev'.p = p)
               => circuitBreakers'[p] =
                    [state |-> "CLOSED", failureCount |-> 0, lastFailureTime |-> NULL]]_vars
  /\ [](\A p \in Providers :
          reset(reset(circuitBreakers[p])) = reset(circuitBreakers[p]))

C28_Witness ==
  \E p \in Providers :
    /\ ev.op = "return" /\ ev.p = p /\ ev.res = "ok"
    /\ NumFails(cbHist[p]) = config.failureThreshold
    /\ Len(cbHist[p]) = config.failureThreshold + 1
    /\ circuitBreakers[p] = [state |-> "CLOSED", failureCount |-> 0, lastFailureTime |-> NULL]

(* C29: an operation that succeeds while the breaker is CLOSED changes     *)
(* neither state nor failureCount nor lastFailureTime: the failures before *)
(* it still count, and the failure that brings the number of failures      *)
(* since the breaker started closed to failureThreshold opens it, with or  *)
(* without successes in between.                                           *)
C29_ClosedSuccessKeepsCount ==
  /\ [][\A p \in Providers :
          /\ (ev'.op = "return" /\ ev'.p = p /\ ev'.res = "ok"
                /\ circuitBreakers[p].state = "CLOSED")
               => circuitBreakers'[p] = circuitBreakers[p]
          /\ (ev'.op = "return" /\ ev'.p = p /\ ev'.res = "fail"
                /\ NumFails(cbHist'[p]) = config.failureThreshold)
               => circuitBreakers'[p].state = "OPEN"]_vars
  /\ [](\A p \in Providers :
          NumFails(cbHist[p]) < config.failureThreshold
            => circuitBreakers[p].failureCount = NumFails(cbHist[p]))

C29_Witness ==
  \E p \in Providers :
    /\ ev.op = "return" /\ ev.p = p /\ ev.res = "fail"
    /\ cbHist[p][1] = "fail"
    /\ NumFails(cbHist[p]) = config.failureThreshold
    /\ TrailingFails(cbHist[p]) < config.failureThreshold
    /\ circuitBreakers[p].state = "OPEN"
    /\ circuitBreakers[p].failureCount = config.failureThreshold

(* ------------- further properties of the EmailService (3) -------------- *)

(* C30: within one dispatch the backoff delay is awaited after cycle k     *)
(* exactly when no provider succeeded in cycle k and k < maxAttempts: every *)
(* cycle but the first follows exactly one delay, a dispatch that fails in *)
(* every cycle has awaited maxAttempts - 1 delays when it throws, and no   *)
(* delay follows the last cycle or a success.                              *)
C30_BackoffBetweenCycles ==
  /\ [](\A c \in Chains :
          /\ chains[c].pc = "backoff"
               => (chains[c].attempts < config.maxAttempts
                   /\ chains[c].suspensions = chains[c].attempts)
          /\ chains[c].pc \in {"sending", "executeReturned", "executeThrew", "returned"}
               => chains[c].suspensions = chains[c].attempts - 1)
  /\ [][(ev'.settle \in {"requeued", "rejected"} /\ ev'.res = "ALL_PROVIDERS_FAILED")
        => (ev'.attempts = config.maxAttempts
            /\ ev'.suspensions = config.maxAttempts - 1)]_vars
  /\ [][\A c \in Chains :
          (ev'.op = "processEmail" /\ IsNext(c) /\ chains[c].pc = "executeReturned")
          => /\ ev'.res = "sent"
             /\ ev'.suspensions = ev'.attempts - 1
             /\ chains'[c].pc = "returned"
             /\ chains'[c].suspensions = chains[c].suspensions]_vars

C30_Witness ==
  /\ ev.op = "processEmail" /\ ev.res = "ALL_PROVIDERS_FAILED"
  /\ config.maxAttempts = MaxAttemptsChoice
  /\ ev.attempts = config.maxAttempts
  /\ ev.suspensions = config.maxAttempts - 1
  /\ ev.suspensions >= 1

(* ---------------- further properties of the Queue (3) ------------------ *)

(* no call of a dispatch function has failed so far: no item was requeued  *)
(* or rejected                                                             *)
NoDispatchFailed ==
  \A h \in Items : items[h].attempts = 0 /\ items[h].state # "rejected"

(* C31: as long as no dispatch function has failed, the queue dispatches   *)
(* and settles the messages in the order of their enqueue, however the     *)
(* enqueues interleave with the processing: the resolved items are the     *)
(* first ones enqueued, the queue holds the others in enqueue order, the   *)
(* item in dispatch is the oldest of them, and the next promise resolved   *)
(* is that item's.                                                         *)
C31_FifoWithoutFailure ==
  /\ [](NoDispatchFailed
         => LET n == Cardinality(Settled("resolved")) IN
            /\ Settled("resolved") = 1..n
            /\ queue = [i \in 1..(Len(items) - n) |-> n + i]
            /\ \A c \in Dispatching : chains[c].item = n + 1)
  /\ [][(NoDispatchFailed /\ ev'.settle = "resolved")
        => LET n == Cardinality(Settled("resolved")) IN
           /\ items[n + 1].state = "pending"
           /\ items'[n + 1].state = "resolved"
           /\ Settled("resolved")' = 1..(n + 1)]_vars

C31_Witness ==
  /\ NoDispatchFailed
  /\ ev.op = "queue" /\ ev.settle = "resolved"
  /\ Len(items) >= 3
  /\ Settled("resolved") = {1, 2}
  /\ queue = <<3>>

(* ------------ further properties of the CircuitBreaker (2) ------------- *)

(* C32: in every reachable state a breaker that is OPEN or HALF_OPEN has   *)
(* failureCount >= failureThreshold and a lastFailureTime that is set,     *)
(* however the completions of execute() and the calls of reset()           *)
(* interleave.                                                             *)
C32_OpenMeansThresholdReached ==
  \A p \in Providers :
    circuitBreakers[p].state \in {"OPEN", "HALF_OPEN"}
      => /\ circuitBreakers[p].failureCount >= config.failureThreshold
         /\ circuitBreakers[p].lastFailureTime # NULL

C32_Witness ==
  \E p \in Providers :
    /\ circuitBreakers[p].state = "HALF_OPEN"
    /\ circuitBreakers[p].failureCount > config.failureThreshold
    /\ circuitBreakers[p].lastFailureTime > 0
    /\ inflight[p] >= 2
    /\ config.failureThreshold >= 1

(* C33: an open breaker is eligible for its half-open trial at every clock *)
(* value: an execute() called when now - lastFailureTime >= resetTimeout   *)
(* invokes the operation, also when the failure that opened the breaker    *)
(* was recorded at clock 0.                                                *)
C33_TrialAtEveryClockValue ==
  [][\A p \in Providers :
       (ev'.op = "execute" /\ ev'.p = p /\ IsOpenElapsed(circuitBreakers[p]))
       => (ev'.invoked = {p} /\ inflight'[p] = inflight[p] + 1)]_vars

(* ------------- further properties of the EmailService (4) -------------- *)

(* C34: the idempotency set holds a message id only if a provider's send   *)
(* for that id has succeeded since the set was last cleared: an id enters  *)
(* the set only in the step in which processEmail resumes with the status  *)
(* its send returned, a submission that fails (rate limit, all providers   *)
(* failed, duplicate) adds nothing, and only clearSentMessageIds() removes *)
(* ids.                                                                    *)
C34_SentIdsAreDelivered ==
  [][/\ ev'.op # "clearSentMessageIds" => sentMessageIds \subseteq sentMessageIds'
     /\ \A id \in sentMessageIds' \ sentMessageIds :
          /\ ev'.op = "processEmail" /\ ev'.id = id /\ ev'.res = "sent"
          /\ \E c \in Chains : /\ IsNext(c) /\ chains[c].pc = "executeReturned"
                                /\ items[chains[c].item].id = id
     /\ (\/ ev'.settle \in {"requeued", "rejected"}
         \/ ev'.res \in DispatchErrors \cup {"DUPLICATE_MESSAGE"})
          => sentMessageIds' = sentMessageIds]_vars

C34_Witness ==
  /\ ev.settle = "rejected"
  /\ ev.id \notin sentMessageIds
  /\ sentMessageIds # {}
  /\ \E h \in Items : items[h].id = ev.id /\ items[h].state = "rejected"
  /\ \E h \in Items : items[h].id \in sentMessageIds /\ items[h].state = "resolved"

====
